---- MODULE Spec2Model ----
(***************************************************************************)
(* Table-configuration validation engine (wnetrzarski).                    *)
(*                                                                         *)
(* The engine is a set of pure functions: seven rule checkers, the         *)
(* orchestrator validate, and the suggester generateSuggestion/applyFix.   *)
(* They are written here as operators, computed the way the TypeScript     *)
(* computes them.  The state machine around them is the caller: it starts  *)
(* from one of the configurations of the repository's test file, edits     *)
(* fields, calls validate, and may call validate again on the suggestion.  *)
(***************************************************************************)
EXTENDS Integers, Sequences, FiniteSets, TLC

(***************************************************************************)
(* An optional numeric field that is absent (undefined in TypeScript).     *)
(***************************************************************************)
Undefined == -1

\* Number of field edits the caller makes to a test configuration.
MaxEdits == 2

\* Number of fields the caller has entered in a partial configuration.
MaxFields == 3

(***************************************************************************)
(* Enumerations of types.ts.  topConstruction is optional: "undefined"     *)
(* stands for the absent field.                                            *)
(***************************************************************************)
TopMaterial == {"sintered_stone", "quartz", "marble", "granite"}
TopShapeType == {"rectangle", "square", "oval", "round", "custom"}
TopEdgeFinish == {"straight", "beveled", "rounded", "mitered"}
TopConstruction == {"undefined", "solid", "composite"}
LegCount == 1..6
LegMaterial == {"steel", "stainless_steel", "aluminum", "solid_wood", "laminated_wood"}
LegProfileType == {"round", "square", "rectangular", "trestle", "pedestal", "radial_halfcylinder"}
LegRadialCount == {Undefined, 3, 4, 5, 6, 8}

(***************************************************************************)
(* Values the caller enters in numeric fields.  They straddle every        *)
(* threshold of the rule tables.                                           *)
(***************************************************************************)
ThicknessValues == {6, 12, 20, 30, 45}
FaceValues == {Undefined, 4, 6, 12, 20}
LengthValues == {900, 1200, 1300, 1500, 1600, 1800, 1960, 2500, 3400}
WidthValues == {300, 600, 800, 900, 1200}
ProfileSizeValues == {25, 40, 50, 60, 80, 200, 300}
ProfileWidthValues == {Undefined, 40}
LegHeightValues == {300, 430, 700, 730, 760, 880, 1090}
TotalHeightValues == {300, 450, 720, 750, 1000, 1150}
RadialSpreadValues == {Undefined, 150, 200, 350}

(***************************************************************************)
(* The configurations of the test file: base() and TC-01 .. TC-19.         *)
(***************************************************************************)
base ==
  [ topMaterial |-> "sintered_stone", topThicknessMm |-> 20,
    topShapeType |-> "rectangle", topLengthMm |-> 1800, topWidthMm |-> 900,
    topEdgeFinish |-> "straight", topConstruction |-> "undefined",
    topFaceThicknessMm |-> Undefined,
    legCount |-> 4, legMaterial |-> "steel", legProfileType |-> "square",
    legProfileSizeMm |-> 60, legProfileWidthMm |-> Undefined,
    legHeightMm |-> 700, hasFootBase |-> FALSE,
    legRadialCount |-> Undefined, legRadialSpreadMm |-> Undefined,
    totalHeightMm |-> 720 ]

TestConfigs ==
  { base,
    [base EXCEPT !.topThicknessMm = 12, !.topLengthMm = 1600, !.topWidthMm = 800,
                 !.legHeightMm = 688, !.totalHeightMm = 700],
    [base EXCEPT !.topShapeType = "round", !.topLengthMm = 1200, !.topWidthMm = 1200,
                 !.legCount = 1, !.legProfileType = "pedestal",
                 !.legProfileSizeMm = 50, !.legHeightMm = 730, !.totalHeightMm = 750],
    [base EXCEPT !.legMaterial = "solid_wood", !.legProfileSizeMm = 50,
                 !.legHeightMm = 880, !.totalHeightMm = 900],
    [base EXCEPT !.topThicknessMm = 12, !.topEdgeFinish = "mitered",
                 !.legHeightMm = 688, !.totalHeightMm = 700],
    [base EXCEPT !.totalHeightMm = 750],
    [base EXCEPT !.legCount = 1, !.legProfileType = "pedestal",
                 !.legProfileSizeMm = 200],
    [base EXCEPT !.topThicknessMm = 6, !.legHeightMm = 994, !.totalHeightMm = 1000],
    [base EXCEPT !.legProfileSizeMm = 40, !.legHeightMm = 760, !.totalHeightMm = 780],
    [base EXCEPT !.topMaterial = "marble", !.topLengthMm = 1500, !.topWidthMm = 800],
    [base EXCEPT !.topThicknessMm = 30, !.topShapeType = "round",
                 !.topLengthMm = 900, !.topWidthMm = 900, !.legCount = 1,
                 !.legProfileType = "pedestal", !.legProfileSizeMm = 300,
                 !.legHeightMm = 720, !.totalHeightMm = 750],
    [base EXCEPT !.legMaterial = "aluminum", !.legProfileType = "rectangular",
                 !.legProfileWidthMm = 40],
    [base EXCEPT !.topThicknessMm = 6, !.topEdgeFinish = "beveled",
                 !.legHeightMm = 714],
    [base EXCEPT !.topShapeType = "oval"],
    [base EXCEPT !.topMaterial = "quartz", !.topLengthMm = 1200, !.topWidthMm = 600,
                 !.topEdgeFinish = "rounded", !.legProfileSizeMm = 50,
                 !.legHeightMm = 430, !.totalHeightMm = 450],
    [base EXCEPT !.topConstruction = "composite", !.topThicknessMm = 45,
                 !.topFaceThicknessMm = 6, !.totalHeightMm = 745],
    [base EXCEPT !.topConstruction = "composite", !.topMaterial = "quartz",
                 !.topThicknessMm = 30, !.topFaceThicknessMm = 4,
                 !.totalHeightMm = 730],
    [base EXCEPT !.legProfileType = "radial_halfcylinder", !.legRadialCount = 4,
                 !.legRadialSpreadMm = 350, !.legProfileSizeMm = 80,
                 !.legCount = 1, !.legHeightMm = 730, !.totalHeightMm = 750],
    [base EXCEPT !.legProfileType = "radial_halfcylinder", !.legRadialCount = 4,
                 !.legRadialSpreadMm = 200, !.legProfileSizeMm = 80,
                 !.legCount = 1, !.legHeightMm = 730, !.totalHeightMm = 750] }

\* One finding: ValidationMessage without its two message strings.
Msg(ruleId, field) == [ruleId |-> ruleId, field |-> field]

\* Math.ceil(0.4 * h) and Math.ceil(0.45 * h) for a non-negative integer h.
\* Mutant: Math.floor in place of Math.ceil.
Floor04(h) == (2 * h) \div 5

Ceil04(h) == (2 * h + 4) \div 5
Ceil045(h) == (9 * h + 19) \div 20
\* Math.ceil(a / b) for integers a >= 0, b > 0.
CeilDiv(a, b) == (a + b - 1) \div b

(***************************************************************************)
(* rules/materialRules.ts                                                  *)
(***************************************************************************)
MATERIAL_MIN_THICKNESS(material) ==
  CASE material = "sintered_stone" -> 12
    [] material = "quartz" -> 20
    [] material = "marble" -> 20
    [] material = "granite" -> 20

MATERIAL_SPAN_UPGRADE ==
  << [materials |-> {"sintered_stone"}, spanThresholdMm |-> 1200, minThicknessMm |-> 20],
     [materials |-> {"marble", "granite"}, spanThresholdMm |-> 1400, minThicknessMm |-> 30] >>

\* Mutant: the composite early return is missing.
checkMaterialThicknessNoSkip(config) ==
  LET absMin == MATERIAL_MIN_THICKNESS(config.topMaterial)
      upgrade(rule) ==
        IF /\ config.topMaterial \in rule.materials
           /\ config.topLengthMm > rule.spanThresholdMm
           /\ config.topThicknessMm < rule.minThicknessMm
        THEN << Msg("MAT-02", "topThicknessMm") >> ELSE << >>
  IN  (IF config.topThicknessMm < absMin
       THEN << Msg("MAT-01", "topThicknessMm") >> ELSE << >>)
      \o upgrade(MATERIAL_SPAN_UPGRADE[1])
      \o upgrade(MATERIAL_SPAN_UPGRADE[2])

checkMaterialThickness(config) ==
  IF config.topConstruction = "composite" THEN << >>
  ELSE
    LET absMin == MATERIAL_MIN_THICKNESS(config.topMaterial)
        upgrade(rule) ==
          IF /\ config.topMaterial \in rule.materials
             /\ config.topLengthMm > rule.spanThresholdMm
             /\ config.topThicknessMm < rule.minThicknessMm
          THEN << Msg("MAT-02", "topThicknessMm") >> ELSE << >>
    IN  (IF config.topThicknessMm < absMin
         THEN << Msg("MAT-01", "topThicknessMm") >> ELSE << >>)
        \o upgrade(MATERIAL_SPAN_UPGRADE[1])
        \o upgrade(MATERIAL_SPAN_UPGRADE[2])

(***************************************************************************)
(* rules/spanRules.ts (second part of stabilityRules.ts in src/)           *)
(***************************************************************************)
SPAN_LIMITS_4LEG ==
  << [materials |-> {"sintered_stone"}, minThicknessMm |-> 12, maxSpanMm |-> 900],
     [materials |-> {"sintered_stone"}, minThicknessMm |-> 20, maxSpanMm |-> 1800],
     [materials |-> {"quartz", "marble", "granite"}, minThicknessMm |-> 20, maxSpanMm |-> 1400],
     [materials |-> {"sintered_stone", "quartz", "marble", "granite"},
      minThicknessMm |-> 30, maxSpanMm |-> 2400] >>

PEDESTAL_SPAN_LIMITS ==
  << [minThicknessMm |-> 20, maxDiagonalMm |-> 1000],
     [minThicknessMm |-> 30, maxDiagonalMm |-> 1200] >>

\* effectiveSpan > limit, where effectiveSpan is topLengthMm for a round top
\* and Math.sqrt(topLengthMm ** 2 + topWidthMm ** 2) otherwise.
effectiveSpanExceeds(config, limit) ==
  IF config.topShapeType = "round"
  THEN config.topLengthMm > limit
  ELSE config.topLengthMm * config.topLengthMm + config.topWidthMm * config.topWidthMm
         > limit * limit

\* Math.floor(maxSpanMm * compositeMultiplier) in IEEE double arithmetic:
\* 1400 * 1.4 evaluates to 1959.9999999999998, the other three products are exact.
effectiveMaxSpanFloor(maxSpanMm, composite) ==
  IF ~composite THEN maxSpanMm
  ELSE IF maxSpanMm = 1400 THEN 1959
  ELSE (maxSpanMm * 14) \div 10

\* [...PEDESTAL_SPAN_LIMITS].reverse().find(l => topThicknessMm >= l.minThicknessMm)
\*   ?.maxDiagonalMm ?? 800
pedestalMaxDiag(topThicknessMm) ==
  IF topThicknessMm >= PEDESTAL_SPAN_LIMITS[2].minThicknessMm
  THEN PEDESTAL_SPAN_LIMITS[2].maxDiagonalMm
  ELSE IF topThicknessMm >= PEDESTAL_SPAN_LIMITS[1].minThicknessMm
  THEN PEDESTAL_SPAN_LIMITS[1].maxDiagonalMm
  ELSE 800

\* Index in SPAN_LIMITS_4LEG of the tier with the highest minThicknessMm among
\* those listing the material and not above the thickness; 0 when there is none.
applicableRule(topMaterial, topThicknessMm) ==
  LET cands == { i \in 1..Len(SPAN_LIMITS_4LEG) :
                   /\ topMaterial \in SPAN_LIMITS_4LEG[i].materials
                   /\ topThicknessMm >= SPAN_LIMITS_4LEG[i].minThicknessMm }
  IN  IF cands = {} THEN 0
      ELSE CHOOSE i \in cands :
             \A j \in cands :
               SPAN_LIMITS_4LEG[j].minThicknessMm <= SPAN_LIMITS_4LEG[i].minThicknessMm

\* Mutant: the pedestal branch does not exclude the radial halfcylinder base.
checkSpanRadialAsPedestal(config) ==
  IF config.legCount = 1 \/ config.legProfileType = "pedestal"
  THEN
    IF effectiveSpanExceeds(config, pedestalMaxDiag(config.topThicknessMm))
    THEN << Msg("SPAN-02", "topLengthMm") >> ELSE << >>
  ELSE IF config.legCount \in {2, 4, 6}
  THEN
    LET r == applicableRule(config.topMaterial, config.topThicknessMm)
    IN  IF /\ r # 0
           /\ config.topLengthMm >
                effectiveMaxSpanFloor(SPAN_LIMITS_4LEG[r].maxSpanMm,
                                      config.topConstruction = "composite")
        THEN << Msg("SPAN-01", "topLengthMm") >> ELSE << >>
  ELSE << >>

\* Mutant: SPAN-01 compares the effective span (diameter or diagonal) instead
\* of topLengthMm.
checkSpanEffective(config) ==
  IF /\ (config.legCount = 1 \/ config.legProfileType = "pedestal")
     /\ config.legProfileType # "radial_halfcylinder"
  THEN
    IF effectiveSpanExceeds(config, pedestalMaxDiag(config.topThicknessMm))
    THEN << Msg("SPAN-02", "topLengthMm") >> ELSE << >>
  ELSE IF config.legCount \in {2, 4, 6}
  THEN
    LET r == applicableRule(config.topMaterial, config.topThicknessMm)
    IN  IF /\ r # 0
           /\ effectiveSpanExceeds(config,
                effectiveMaxSpanFloor(SPAN_LIMITS_4LEG[r].maxSpanMm,
                                      config.topConstruction = "composite"))
        THEN << Msg("SPAN-01", "topLengthMm") >> ELSE << >>
  ELSE << >>

\* Mutant: the pedestal branch does not return early, the 2/4/6-leg check
\* follows it.
checkSpanPedestalFallsThrough(config) ==
  (IF /\ (config.legCount = 1 \/ config.legProfileType = "pedestal")
      /\ config.legProfileType # "radial_halfcylinder"
      /\ effectiveSpanExceeds(config, pedestalMaxDiag(config.topThicknessMm))
   THEN << Msg("SPAN-02", "topLengthMm") >> ELSE << >>)
  \o (IF config.legCount \in {2, 4, 6}
      THEN
        LET r == applicableRule(config.topMaterial, config.topThicknessMm)
        IN  IF /\ r # 0
               /\ config.topLengthMm >
                    effectiveMaxSpanFloor(SPAN_LIMITS_4LEG[r].maxSpanMm,
                                          config.topConstruction = "composite")
            THEN << Msg("SPAN-01", "topLengthMm") >> ELSE << >>
      ELSE << >>)

checkSpan(config) ==
  IF /\ (config.legCount = 1 \/ config.legProfileType = "pedestal")
     /\ config.legProfileType # "radial_halfcylinder"
  THEN
    IF effectiveSpanExceeds(config, pedestalMaxDiag(config.topThicknessMm))
    THEN << Msg("SPAN-02", "topLengthMm") >> ELSE << >>
  ELSE IF config.legCount \in {2, 4, 6}
  THEN
    LET r == applicableRule(config.topMaterial, config.topThicknessMm)
    IN  IF /\ r # 0
           /\ config.topLengthMm >
                effectiveMaxSpanFloor(SPAN_LIMITS_4LEG[r].maxSpanMm,
                                      config.topConstruction = "composite")
        THEN << Msg("SPAN-01", "topLengthMm") >> ELSE << >>
  ELSE << >>

(***************************************************************************)
(* rules/stabilityRules.ts                                                 *)
(***************************************************************************)
METAL_MATERIALS == {"steel", "stainless_steel", "aluminum"}
WOOD_MATERIALS == {"solid_wood", "laminated_wood"}

\* minProfileForNoBase of FOOT_BASE_RULES; maxLegHeightWithoutBase is 700 for both.
FOOT_BASE_RULES ==
  [ metal |-> [maxLegHeightWithoutBase |-> 700, minProfileForNoBase |-> 60],
    wood  |-> [maxLegHeightWithoutBase |-> 700, minProfileForNoBase |-> 80] ]

\* footprint / totalHeightMm < MIN_STABILITY_RATIO (0.45), for totalHeightMm > 0.
stabilityRatioTooLow(footprint, totalHeightMm) == 20 * footprint < 9 * totalHeightMm

\* Mutant: the footprint is topWidthMm for every base, radial included.
checkStabilityWidthOnly(config) ==
  LET isRadial == config.legProfileType = "radial_halfcylinder"
      footprint == config.topWidthMm
      footRule(rule) ==
        IF /\ config.legHeightMm > rule.maxLegHeightWithoutBase
           /\ config.legProfileSizeMm < rule.minProfileForNoBase
           /\ ~config.hasFootBase
        THEN << Msg("STAB-03", "hasFootBase") >> ELSE << >>
  IN  (IF stabilityRatioTooLow(footprint, config.totalHeightMm)
       THEN << Msg("STAB-01", "topWidthMm") >> ELSE << >>)
      \o (IF /\ ~isRadial
             /\ (config.legCount = 1 \/ config.legProfileType = "pedestal")
             /\ config.legProfileSizeMm < Ceil04(config.totalHeightMm)
          THEN << Msg("STAB-02", "legProfileSizeMm") >> ELSE << >>)
      \o (IF ~isRadial /\ config.legMaterial \in METAL_MATERIALS
          THEN footRule(FOOT_BASE_RULES.metal) ELSE << >>)
      \o (IF ~isRadial /\ config.legMaterial \in WOOD_MATERIALS
          THEN footRule(FOOT_BASE_RULES.wood) ELSE << >>)

checkStability(config) ==
  LET isRadial == config.legProfileType = "radial_halfcylinder"
      footprint == IF isRadial /\ config.legRadialSpreadMm # Undefined
                   THEN config.legRadialSpreadMm * 2
                   ELSE config.topWidthMm
      footRule(rule) ==
        IF /\ config.legHeightMm > rule.maxLegHeightWithoutBase
           /\ config.legProfileSizeMm < rule.minProfileForNoBase
           /\ ~config.hasFootBase
        THEN << Msg("STAB-03", "hasFootBase") >> ELSE << >>
  IN  (IF stabilityRatioTooLow(footprint, config.totalHeightMm)
       THEN << Msg("STAB-01", "topWidthMm") >> ELSE << >>)
      \o (IF /\ ~isRadial
             /\ (config.legCount = 1 \/ config.legProfileType = "pedestal")
             /\ config.legProfileSizeMm < Ceil04(config.totalHeightMm)
          THEN << Msg("STAB-02", "legProfileSizeMm") >> ELSE << >>)
      \o (IF ~isRadial /\ config.legMaterial \in METAL_MATERIALS
          THEN footRule(FOOT_BASE_RULES.metal) ELSE << >>)
      \o (IF ~isRadial /\ config.legMaterial \in WOOD_MATERIALS
          THEN footRule(FOOT_BASE_RULES.wood) ELSE << >>)

(***************************************************************************)
(* rules/compositeRules.ts (third part of stabilityRules.ts in src/)       *)
(***************************************************************************)
COMPOSITE_FACE_MIN(material) ==
  CASE material = "sintered_stone" -> 6
    [] material = "quartz" -> 12
    [] material = "marble" -> 12
    [] material = "granite" -> 12

MIN_CORE_MM == 10

\* Mutant: COMP-03 is not suppressed when the core is below MIN_CORE_MM.
checkCompositeTopUnguarded(config) ==
  IF config.topConstruction # "composite" THEN << >>
  ELSE IF config.topFaceThicknessMm = Undefined THEN << >>
  ELSE
    LET core == config.topThicknessMm - 2 * config.topFaceThicknessMm
        minTotal == 2 * config.topFaceThicknessMm + MIN_CORE_MM
    IN  (IF config.topFaceThicknessMm < COMPOSITE_FACE_MIN(config.topMaterial)
         THEN << Msg("COMP-01", "topFaceThicknessMm") >> ELSE << >>)
        \o (IF core < MIN_CORE_MM
            THEN << Msg("COMP-02", "topFaceThicknessMm") >> ELSE << >>)
        \o (IF config.topThicknessMm < minTotal
            THEN << Msg("COMP-03", "topThicknessMm") >> ELSE << >>)

checkCompositeTop(config) ==
  IF config.topConstruction # "composite" THEN << >>
  ELSE IF config.topFaceThicknessMm = Undefined THEN << >>
  ELSE
    LET core == config.topThicknessMm - 2 * config.topFaceThicknessMm
        minTotal == 2 * config.topFaceThicknessMm + MIN_CORE_MM
    IN  (IF config.topFaceThicknessMm < COMPOSITE_FACE_MIN(config.topMaterial)
         THEN << Msg("COMP-01", "topFaceThicknessMm") >> ELSE << >>)
        \o (IF core < MIN_CORE_MM
            THEN << Msg("COMP-02", "topFaceThicknessMm") >> ELSE << >>)
        \o (IF config.topThicknessMm < minTotal /\ core >= MIN_CORE_MM
            THEN << Msg("COMP-03", "topThicknessMm") >> ELSE << >>)

(***************************************************************************)
(* rules/legRules.ts                                                       *)
(***************************************************************************)
\* minSizeMm of the LEG_MIN_PROFILES row for a metal leg of this profile type;
\* 0 when the table has no row (trestle, pedestal): find() returns undefined.
LEG_MIN_PROFILES(profileType) ==
  CASE profileType = "round" -> 30
    [] profileType = "square" -> 40
    [] profileType = "rectangular" -> 40
    [] OTHER -> 0

WOOD_MIN_PROFILE_SHORT == 60
WOOD_MIN_PROFILE_TALL == 80
WOOD_TALL_THRESHOLD == 750
MAX_SLENDERNESS_METAL == 25
MAX_SLENDERNESS_WOOD == 15
PEDESTAL_VALID_SHAPES == {"round", "square"}
RADIAL_MIN_COUNT == 3
RADIAL_MIN_DIAMETER_MM == 60

checkLegRules(config) ==
  IF config.legProfileType = "radial_halfcylinder"
  THEN
    (IF /\ config.legRadialSpreadMm # Undefined
        /\ config.legRadialSpreadMm < Ceil04(config.totalHeightMm)
     THEN << Msg("RADIAL-01", "legRadialSpreadMm") >> ELSE << >>)
    \o (IF config.legRadialCount # Undefined /\ config.legRadialCount < RADIAL_MIN_COUNT
        THEN << Msg("RADIAL-02", "legRadialCount") >> ELSE << >>)
    \o (IF config.legProfileSizeMm < RADIAL_MIN_DIAMETER_MM
        THEN << Msg("RADIAL-03", "legProfileSizeMm") >> ELSE << >>)
  ELSE
    LET isMetalLeg == config.legMaterial \in METAL_MATERIALS
        isWoodLeg == config.legMaterial \in WOOD_MATERIALS
        minSize == IF config.legHeightMm >= WOOD_TALL_THRESHOLD
                   THEN WOOD_MIN_PROFILE_TALL ELSE WOOD_MIN_PROFILE_SHORT
        \* slenderness = legHeightMm / legProfileSizeMm > max, legProfileSizeMm > 0
        tooSlender(max) == config.legHeightMm > max * config.legProfileSizeMm
        violations ==
          (IF isMetalLeg /\ config.legProfileSizeMm < LEG_MIN_PROFILES(config.legProfileType)
           THEN << Msg("LEG-01", "legProfileSizeMm") >> ELSE << >>)
          \o (IF isWoodLeg /\ config.legProfileSizeMm < minSize
              THEN << Msg("LEG-02", "legProfileSizeMm") >> ELSE << >>)
          \o (IF isMetalLeg /\ tooSlender(MAX_SLENDERNESS_METAL)
              THEN << Msg("LEG-03", "legProfileSizeMm") >> ELSE << >>)
          \o (IF isWoodLeg /\ tooSlender(MAX_SLENDERNESS_WOOD)
              THEN << Msg("LEG-03", "legProfileSizeMm") >> ELSE << >>)
          \o (IF /\ (config.legCount = 1 \/ config.legProfileType = "pedestal")
                 /\ config.topShapeType \notin PEDESTAL_VALID_SHAPES
              THEN << Msg("LEG-04", "legCount") >> ELSE << >>)
        warnings ==
          IF config.topShapeType \in {"round", "oval"} /\ config.legCount >= 4
          THEN << Msg("LEG-05", "legCount") >> ELSE << >>
    IN  violations \o warnings

(***************************************************************************)
(* rules/heightRules.ts                                                    *)
(***************************************************************************)
MIN_TOTAL_HEIGHT == 350
MAX_TOTAL_HEIGHT == 1100
HEIGHT_TOLERANCE == 2

Abs(x) == IF x < 0 THEN -x ELSE x

checkHeight(config) ==
  LET expectedTotal == config.legHeightMm + config.topThicknessMm
      diff == Abs(config.totalHeightMm - expectedTotal)
  IN  (IF config.totalHeightMm < MIN_TOTAL_HEIGHT
       THEN << Msg("HGT-01", "totalHeightMm") >> ELSE << >>)
      \o (IF config.totalHeightMm > MAX_TOTAL_HEIGHT
          THEN << Msg("HGT-01", "totalHeightMm") >> ELSE << >>)
      \o (IF diff > HEIGHT_TOLERANCE
          THEN << Msg("HGT-03", "totalHeightMm") >> ELSE << >>)

(***************************************************************************)
(* rules/edgeRules.ts                                                      *)
(***************************************************************************)
\* EDGE_MIN_THICKNESS[finish]; 0 when the table has no entry (undefined).
EDGE_MIN_THICKNESS(finish) ==
  CASE finish = "mitered" -> 20
    [] finish = "beveled" -> 12
    [] OTHER -> 0

\* Mutant: for a composite top the finding names the face-panel thickness, the
\* field that was compared.
checkEdgeFieldCompared(config) ==
  LET composite ==
        config.topConstruction = "composite" /\ config.topFaceThicknessMm # Undefined
      effectiveThickness ==
        IF composite THEN config.topFaceThicknessMm ELSE config.topThicknessMm
      minThickness == EDGE_MIN_THICKNESS(config.topEdgeFinish)
  IN  IF minThickness # 0 /\ effectiveThickness < minThickness
      THEN << Msg(IF config.topEdgeFinish = "mitered" THEN "EDGE-01" ELSE "EDGE-02",
                  IF composite THEN "topFaceThicknessMm" ELSE "topEdgeFinish") >>
      ELSE << >>

checkEdge(config) ==
  LET effectiveThickness ==
        IF config.topConstruction = "composite" /\ config.topFaceThicknessMm # Undefined
        THEN config.topFaceThicknessMm
        ELSE config.topThicknessMm
      minThickness == EDGE_MIN_THICKNESS(config.topEdgeFinish)
  IN  IF minThickness # 0 /\ effectiveThickness < minThickness
      THEN << Msg(IF config.topEdgeFinish = "mitered" THEN "EDGE-01" ELSE "EDGE-02",
                  "topEdgeFinish") >>
      ELSE << >>

(***************************************************************************)
(* suggester.ts                                                            *)
(***************************************************************************)
\* x ?? d for an optional numeric field.
OrElse(x, d) == IF x = Undefined THEN d ELSE x

Max(a, b) == IF a >= b THEN a ELSE b

isWoodMaterial(material) == material = "solid_wood" \/ material = "laminated_wood"

spanBasedMinThickness(config) ==
  IF config.topMaterial = "sintered_stone" /\ config.topLengthMm > 1200 THEN 20
  ELSE IF config.topMaterial \in {"marble", "granite"} /\ config.topLengthMm > 1400 THEN 30
  ELSE config.topThicknessMm

\* null is modelled as Undefined.
minThicknessForSpan(material, spanMm) ==
  IF material = "sintered_stone"
  THEN IF spanMm <= 900 THEN 12
       ELSE IF spanMm <= 1800 THEN 20
       ELSE IF spanMm <= 2400 THEN 30
       ELSE Undefined
  ELSE IF material \in {"quartz", "marble", "granite"}
  THEN IF spanMm <= 1400 THEN 20
       ELSE IF spanMm <= 2400 THEN 30
       ELSE Undefined
  ELSE Undefined

maxSpanForThickness(material, thickness) ==
  IF material = "sintered_stone" /\ thickness >= 30 THEN 2400
  ELSE IF material = "sintered_stone" /\ thickness >= 20 THEN 1800
  ELSE IF material = "sintered_stone" /\ thickness >= 12 THEN 900
  ELSE IF material \in {"quartz", "marble", "granite"} /\ thickness >= 30 THEN 2400
  ELSE IF material \in {"quartz", "marble", "granite"} /\ thickness >= 20 THEN 1400
  ELSE Undefined

(***************************************************************************)
(* a * b <= c * d for naturals below 2^25, computed in limbs of 15 bits so *)
(* that no intermediate value leaves the 32-bit integers.                  *)
(***************************************************************************)
Limbs(a, b) ==
  LET B  == 32768
      p0 == (a % B) * (b % B)
      p1 == (a \div B) * (b % B) + (a % B) * (b \div B) + (p0 \div B)
      p2 == (a \div B) * (b \div B) + (p1 \div B)
  IN  << p2, p1 % B, p0 % B >>

LeqProd(a, b, c, d) ==
  LET x == Limbs(a, b)
      y == Limbs(c, d)
  IN  \/ x[1] < y[1]
      \/ x[1] = y[1] /\ x[2] < y[2]
      \/ x[1] = y[1] /\ x[2] = y[2] /\ x[3] <= y[3]

\* The floor of the exact quotient x * maxDiag / sqrt(sq): the largest v in
\* lo .. hi - 1 with v^2 * sq <= (maxDiag * x)^2.
RECURSIVE ExactQuotientFloor(_, _, _, _, _)
ExactQuotientFloor(lo, hi, x, sq, maxDiag) ==
  IF hi - lo <= 1 THEN lo
  ELSE LET mid == (lo + hi) \div 2
       IN  IF LeqProd(mid * mid, sq, maxDiag * x, maxDiag * x)
           THEN ExactQuotientFloor(mid, hi, x, sq, maxDiag)
           ELSE ExactQuotientFloor(lo, mid, x, sq, maxDiag)

\* Math.sqrt(n) rounded down: the largest v in lo .. hi - 1 with v^2 <= n.
RECURSIVE ISqrtIn(_, _, _)
ISqrtIn(lo, hi, n) ==
  IF hi - lo <= 1 THEN lo
  ELSE LET mid == (lo + hi) \div 2
       IN  IF mid * mid <= n THEN ISqrtIn(mid, hi, n) ELSE ISqrtIn(lo, mid, n)

ISqrt(n) == ISqrtIn(0, 46341, n)

RECURSIVE Pow2(_)
Pow2(n) == IF n = 0 THEN 1 ELSE 2 * Pow2(n - 1)

\* 2^e modulo d
RECURSIVE PowMod2(_, _)
PowMod2(e, d) == IF e = 0 THEN 1 % d ELSE (2 * PowMod2(e - 1, d)) % d

\* The exponent of a positive integer as a double: the k with 2^k <= q < 2^(k+1).
RECURSIVE Log2Floor(_)
Log2Floor(q) == IF q < 2 THEN 0 ELSE 1 + Log2Floor(q \div 2)

\* The binade of scale = maxDiag / d for maxDiag < d: the j >= from with
\* 2^-j <= maxDiag / d < 2^(1-j).
RECURSIVE BinadeIn(_, _, _)
BinadeIn(from, maxDiag, d) ==
  IF maxDiag * Pow2(from) >= d THEN from ELSE BinadeIn(from + 1, maxDiag, d)

\* Math.floor(x * scale) with scale = maxDiag / Math.sqrt(length ** 2 + width ** 2),
\* in IEEE double arithmetic, where the diagonal exceeds maxDiag.
\*
\* Where the exact quotient x * maxDiag / sqrt(sq) is not an integer it is
\* further from every integer than the rounding errors of the square root, the
\* division and the product together, and the result is its floor.
\*
\* Where it is an integer q (then sq = d^2, Math.sqrt is exact and x > 0) the
\* division rounds once: scale = s * 2^-(52+j) with s = (maxDiag * 2^(52+j) + rho) / d
\* the nearest integer, so x * scale = q + t * 2^-(52+j) exactly, t = x * rho / d.
\* The product rounds to a double below q, and the floor is q - 1, exactly when
\* t < 0 and |t| * 2^-(52+j) exceeds half the spacing of the doubles below q,
\* which is 2^(k-52) for 2^k < q < 2^(k+1) and 2^(k-53) for q = 2^k (a tie goes
\* to q, whose significand is even).
FloorScaled(x, length, width, maxDiag) ==
  LET sq == length * length + width * width
      d  == ISqrt(sq)
  IN  IF d * d # sq \/ x = 0 \/ (x * maxDiag) % d # 0
      THEN ExactQuotientFloor(0, x, x, sq, maxDiag)
      ELSE LET q   == (x * maxDiag) \div d
               j   == BinadeIn(1, maxDiag, d)
               r0  == (maxDiag * PowMod2(52 + j, d)) % d
               rho == IF 2 * r0 <= d THEN 0 - r0 ELSE d - r0
               t   == (x * rho) \div d
               k   == Log2Floor(q)
               below == IF q = Pow2(k) THEN 2 * (0 - t) ELSE 0 - t
           IN  IF t < 0 /\ below > Pow2(k - 1 + j) THEN q - 1 ELSE q

applyFix(config, ruleId) ==
  CASE ruleId = "MAT-01" ->
         LET min == MATERIAL_MIN_THICKNESS(config.topMaterial)
         IN  IF config.topThicknessMm < min
             THEN [config EXCEPT !.topThicknessMm = min] ELSE config
    [] ruleId = "MAT-02" ->
         LET spanMin == spanBasedMinThickness(config)
         IN  IF config.topThicknessMm < spanMin
             THEN [config EXCEPT !.topThicknessMm = spanMin] ELSE config
    [] ruleId = "SPAN-01" ->
         LET requiredThickness == minThicknessForSpan(config.topMaterial, config.topLengthMm)
             maxLen == maxSpanForThickness(config.topMaterial, config.topThicknessMm)
         IN  IF requiredThickness # Undefined
             THEN [config EXCEPT !.topThicknessMm = Max(config.topThicknessMm, requiredThickness)]
             ELSE IF maxLen # Undefined
             THEN [config EXCEPT !.topLengthMm = maxLen]
             ELSE config
    [] ruleId = "SPAN-02" ->
         IF config.topThicknessMm < 30
         THEN [config EXCEPT !.topThicknessMm = 30]
         ELSE IF config.topLengthMm * config.topLengthMm
                   + config.topWidthMm * config.topWidthMm > 1200 * 1200
         THEN [config EXCEPT
                 !.topLengthMm = FloorScaled(config.topLengthMm, config.topLengthMm,
                                             config.topWidthMm, 1200),
                 !.topWidthMm = FloorScaled(config.topWidthMm, config.topLengthMm,
                                            config.topWidthMm, 1200)]
         ELSE config
    [] ruleId = "STAB-01" ->
         LET minWidth == Ceil045(config.totalHeightMm)
         IN  IF config.topWidthMm < minWidth
             THEN [config EXCEPT !.topWidthMm = minWidth] ELSE config
    [] ruleId = "STAB-02" ->
         LET minBase == Ceil04(config.totalHeightMm)
         IN  IF config.legProfileSizeMm < minBase
             THEN [config EXCEPT !.legProfileSizeMm = minBase] ELSE config
    [] ruleId = "STAB-03" -> [config EXCEPT !.hasFootBase = TRUE]
    [] ruleId = "LEG-01" ->
         LET row == LEG_MIN_PROFILES(config.legProfileType)
             min == IF row = 0 THEN 40 ELSE row
         IN  IF config.legProfileSizeMm < min
             THEN [config EXCEPT !.legProfileSizeMm = min] ELSE config
    [] ruleId = "LEG-02" ->
         LET min == IF config.legHeightMm >= 750 THEN 80 ELSE 60
         IN  IF config.legProfileSizeMm < min
             THEN [config EXCEPT !.legProfileSizeMm = min] ELSE config
    [] ruleId = "LEG-03" ->
         LET maxSlenderness == IF isWoodMaterial(config.legMaterial) THEN 15 ELSE 25
             minProfile == CeilDiv(config.legHeightMm, maxSlenderness)
         IN  IF config.legProfileSizeMm < minProfile
             THEN [config EXCEPT !.legProfileSizeMm = minProfile] ELSE config
    [] ruleId = "LEG-04" ->
         [config EXCEPT !.legCount = 4,
                        !.legProfileType = IF @ = "pedestal" THEN "square" ELSE @]
    [] ruleId = "HGT-01" ->
         IF config.totalHeightMm < 550
         THEN [config EXCEPT !.totalHeightMm = 550,
                             !.legHeightMm = 550 - config.topThicknessMm]
         ELSE IF config.totalHeightMm > 1100
         THEN [config EXCEPT !.totalHeightMm = 1100,
                             !.legHeightMm = 1100 - config.topThicknessMm]
         ELSE config
    [] ruleId = "HGT-03" ->
         [config EXCEPT !.totalHeightMm = config.legHeightMm + config.topThicknessMm]
    [] ruleId = "EDGE-01" ->
         IF config.topThicknessMm < 20
         THEN [config EXCEPT !.topThicknessMm = 20] ELSE config
    [] ruleId = "EDGE-02" ->
         IF config.topThicknessMm < 12
         THEN [config EXCEPT !.topEdgeFinish = "straight"]
         ELSE [config EXCEPT !.topThicknessMm = 12]
    [] ruleId = "COMP-01" ->
         LET min == COMPOSITE_FACE_MIN(config.topMaterial)
         IN  IF OrElse(config.topFaceThicknessMm, 0) < min
             THEN [config EXCEPT !.topFaceThicknessMm = min] ELSE config
    [] ruleId \in {"COMP-02", "COMP-03"} ->
         LET face == OrElse(config.topFaceThicknessMm, 6)
             minTotal == 2 * face + 10
         IN  IF config.topThicknessMm < minTotal
             THEN [config EXCEPT !.topThicknessMm = minTotal] ELSE config
    [] ruleId = "RADIAL-01" ->
         LET minSpread == Ceil04(config.totalHeightMm)
         IN  IF OrElse(config.legRadialSpreadMm, 0) < minSpread
             THEN [config EXCEPT !.legRadialSpreadMm = minSpread] ELSE config
    [] ruleId = "RADIAL-02" -> [config EXCEPT !.legRadialCount = 3]
    [] ruleId = "RADIAL-03" ->
         IF config.legProfileSizeMm < 60
         THEN [config EXCEPT !.legProfileSizeMm = 60] ELSE config
    [] OTHER -> config

\* The loop of generateSuggestion: applyFix for each violation, in list order.
RECURSIVE applyFixes(_, _)
applyFixes(suggested, violations) ==
  IF violations = << >> THEN suggested
  ELSE applyFixes(applyFix(suggested, Head(violations).ruleId), Tail(violations))

\* Mutant: the leg height is recalculated from the total height, instead of
\* the total height from the leg height.
generateSuggestionRecalcLeg(original, violations) ==
  LET suggested == applyFixes(original, violations)
  IN  [suggested EXCEPT !.legHeightMm = suggested.totalHeightMm - suggested.topThicknessMm]

\* Mutant: totalHeightMm is not recalculated after the fixes.
generateSuggestionNoRecalc(original, violations) ==
  applyFixes(original, violations)

generateSuggestion(original, violations) ==
  LET suggested == applyFixes(original, violations)
  IN  [suggested EXCEPT !.totalHeightMm = suggested.legHeightMm + suggested.topThicknessMm]

\* Mutant: no clone, the fixes are written to the caller's object.
suggestionObjectsInPlace(original, violations) ==
  [original |-> generateSuggestion(original, violations),
   suggested |-> generateSuggestion(original, violations)]

\* The two objects when generateSuggestion returns.  `suggested` starts as
\* { ...original }, a separate object (every field is a primitive), so the
\* writes of applyFix and the recalculation land in it and not in `original`.
suggestionObjects(original, violations) ==
  [original |-> original,
   suggested |-> generateSuggestion(original, violations)]

(***************************************************************************)
(* constraints.ts                                                          *)
(* A Partial<TableConfig> has every field; a field not yet entered holds   *)
(* Undefined (numbers) or "undefined" (enumerations).                      *)
(***************************************************************************)
ABS ==
  [ topThickness |-> [min |-> 6, max |-> 60],
    topFace |-> [min |-> 3, max |-> 30],
    topLength |-> [min |-> 200, max |-> 4000],
    topWidth |-> [min |-> 100, max |-> 2000],
    legProfile |-> [min |-> 10, max |-> 500],
    radialSpread |-> [min |-> 50, max |-> 1500] ]

\* p.x != null for a number, truthiness of p.x for an enumeration.
HasNum(x) == x # Undefined
HasStr(x) == x # "undefined"

\* The sixteen names constraints.ts imports from the rule files that the rule
\* files declare with `const` and do not export: with the types stripped the
\* imported binding is undefined.  SPAN_LIMITS_4LEG and EDGE_MIN_THICKNESS are
\* exported and keep their values.
Imported ==
  [ MATERIAL_MIN_THICKNESS |-> Undefined, MATERIAL_SPAN_UPGRADE |-> Undefined,
    MIN_STABILITY_RATIO |-> Undefined, PEDESTAL_BASE_RATIO |-> Undefined,
    LEG_MIN_PROFILES |-> Undefined,
    WOOD_MIN_PROFILE_SHORT |-> Undefined, WOOD_MIN_PROFILE_TALL |-> Undefined,
    WOOD_TALL_THRESHOLD |-> Undefined,
    MAX_SLENDERNESS_METAL |-> Undefined, MAX_SLENDERNESS_WOOD |-> Undefined,
    RADIAL_MIN_DIAMETER_MM |-> Undefined, RADIAL_SPREAD_RATIO |-> Undefined,
    COMPOSITE_FACE_MIN |-> Undefined, MIN_CORE_MM |-> Undefined,
    MIN_TOTAL_HEIGHT |-> Undefined, MAX_TOTAL_HEIGHT |-> Undefined ]

\* The outcome of a call that reads a property of undefined.
TypeError == [threw |-> "TypeError"]

Threw(r) == "threw" \in DOMAIN r

\* The number NaN; undefined becomes NaN in arithmetic, and every comparison
\* with NaN is false.
NaN == 0 - 2

IsNum(x) == x # Undefined /\ x # NaN

jsAdd(a, b) == IF IsNum(a) /\ IsNum(b) THEN a + b ELSE NaN
jsSub(a, b) == IF IsNum(a) /\ IsNum(b) THEN a - b ELSE NaN
jsMul(a, b) == IF IsNum(a) /\ IsNum(b) THEN a * b ELSE NaN
\* Math.ceil(a / b)
jsCeilDiv(a, b) == IF IsNum(a) /\ IsNum(b) THEN CeilDiv(a, b) ELSE NaN
\* Math.floor(a / 2)
jsFloorHalf(a) == IF IsNum(a) THEN a \div 2 ELSE NaN
jsGt(a, b) == IsNum(a) /\ IsNum(b) /\ a > b
jsGe(a, b) == IsNum(a) /\ IsNum(b) /\ a >= b
jsMax(a, b) == IF IsNum(a) /\ IsNum(b) THEN (IF a >= b THEN a ELSE b) ELSE NaN
jsMin(a, b) == IF IsNum(a) /\ IsNum(b) THEN (IF a <= b THEN a ELSE b) ELSE NaN

\* Math.round(maxSpanMm * mult) with mult 1.4 or 1.0.  Of the four products by
\* 1.4 only 1400 * 1.4 is inexact as a double (1959.9999999999998); it rounds
\* to 1960 like the exact product, so rounding the exact product is the same.
roundScaled(maxSpanMm, composite) ==
  IF composite THEN (maxSpanMm * 14 + 5) \div 10 ELSE maxSpanMm

\* maxSpanForThickness of constraints.ts; null is Undefined.
constraintsMaxSpanForThickness(material, thickness, composite) ==
  LET r == applicableRule(material, thickness)
  IN  IF r = 0 THEN Undefined
      ELSE roundScaled(SPAN_LIMITS_4LEG[r].maxSpanMm, composite)

recommendedThickness(material, length, atLeast) ==
  IF ~HasStr(material) THEN Max(atLeast, 20)
  ELSE IF material = "sintered_stone"
  THEN Max(atLeast, IF HasNum(length) /\ length > 1200 THEN 20 ELSE 12)
  ELSE Max(atLeast, IF HasNum(length) /\ length > 1400 THEN 30 ELSE 20)

topThicknessConstraint(p) ==
  IF p.topConstruction = "composite"
  THEN
    \* COMPOSITE_FACE_MIN[p.topMaterial] is read when the face thickness is
    \* absent and a material is given.
    IF ~HasNum(p.topFaceThicknessMm) /\ HasStr(p.topMaterial)
    THEN TypeError
    ELSE
      LET faceMin == IF HasNum(p.topFaceThicknessMm) THEN p.topFaceThicknessMm ELSE 6
          minTotal == jsAdd(2 * faceMin, Imported.MIN_CORE_MM)
          min == IF jsGt(minTotal, ABS.topThickness.min)
                 THEN minTotal ELSE ABS.topThickness.min
      IN  [min |-> min, max |-> ABS.topThickness.max, recommended |-> min]
  ELSE
    \* MATERIAL_MIN_THICKNESS[p.topMaterial] is read when a material is given;
    \* without one the MAT-01, MAT-02 and SPAN-01 blocks are skipped.
    IF HasStr(p.topMaterial)
    THEN TypeError
    ELSE
      LET min == IF HasStr(p.topEdgeFinish)
                 THEN Max(ABS.topThickness.min, EDGE_MIN_THICKNESS(p.topEdgeFinish))
                 ELSE ABS.topThickness.min
      IN  [min |-> min, max |-> ABS.topThickness.max,
           recommended |-> recommendedThickness(p.topMaterial, p.topLengthMm, min)]

topFaceConstraint(p) ==
  \* COMPOSITE_FACE_MIN[p.topMaterial]
  IF p.topConstruction = "composite" /\ HasStr(p.topMaterial)
  THEN TypeError
  ELSE
    LET min == IF p.topConstruction = "composite" /\ HasStr(p.topEdgeFinish)
               THEN Max(ABS.topFace.min, EDGE_MIN_THICKNESS(p.topEdgeFinish))
               ELSE ABS.topFace.min
        \* Math.floor((p.topThicknessMm - MIN_CORE_MM) / 2)
        maxFromTotal == IF HasNum(p.topThicknessMm)
                        THEN jsFloorHalf(jsSub(p.topThicknessMm, Imported.MIN_CORE_MM))
                        ELSE ABS.topFace.max
    IN  [min |-> min, max |-> jsMax(min, jsMin(ABS.topFace.max, maxFromTotal)),
         recommended |-> min]

topLengthConstraint(p) ==
  LET spanMax == constraintsMaxSpanForThickness(p.topMaterial, p.topThicknessMm,
                                                p.topConstruction = "composite")
      max == IF /\ HasStr(p.topMaterial) /\ HasNum(p.topThicknessMm)
                /\ HasNum(p.legCount) /\ p.legCount > 1
                /\ p.legProfileType # "radial_halfcylinder"
                /\ spanMax # Undefined /\ spanMax < ABS.topLength.max
             THEN spanMax ELSE ABS.topLength.max
  IN  [min |-> ABS.topLength.min, max |-> max]

topWidthConstraint(p) ==
  LET stabilityMin == jsMul(Imported.MIN_STABILITY_RATIO, p.totalHeightMm)
      min == IF /\ p.legProfileType # "radial_halfcylinder" /\ HasNum(p.totalHeightMm)
                /\ jsGt(stabilityMin, ABS.topWidth.min)
             THEN stabilityMin ELSE ABS.topWidth.min
  IN  [min |-> min, max |-> ABS.topWidth.max]

totalHeightConstraint ==
  [min |-> Imported.MIN_TOTAL_HEIGHT, max |-> Imported.MAX_TOTAL_HEIGHT]

legProfileConstraint(p) ==
  IF p.legProfileType = "radial_halfcylinder"
  THEN [min |-> IF jsGt(Imported.RADIAL_MIN_DIAMETER_MM, ABS.legProfile.min)
                THEN Imported.RADIAL_MIN_DIAMETER_MM ELSE ABS.legProfile.min,
        max |-> ABS.legProfile.max]
  ELSE
    LET isMetal == p.legMaterial \in METAL_MATERIALS
        isWood == p.legMaterial \in WOOD_MATERIALS
    IN  \* LEG_MIN_PROFILES.find(...)
        IF isMetal /\ HasStr(p.legProfileType)
        THEN TypeError
        ELSE
          LET m1 == ABS.legProfile.min
              woodMin == IF jsGe(p.legHeightMm, Imported.WOOD_TALL_THRESHOLD)
                         THEN Imported.WOOD_MIN_PROFILE_TALL
                         ELSE Imported.WOOD_MIN_PROFILE_SHORT
              m2 == IF isWood /\ HasNum(p.legHeightMm) /\ jsGt(woodMin, m1)
                    THEN woodMin ELSE m1
              slenderMin == jsCeilDiv(p.legHeightMm,
                                      IF isWood THEN Imported.MAX_SLENDERNESS_WOOD
                                      ELSE Imported.MAX_SLENDERNESS_METAL)
              m3 == IF /\ HasNum(p.legHeightMm) /\ (isMetal \/ isWood)
                       /\ jsGt(slenderMin, m2)
                    THEN slenderMin ELSE m2
              pedestalMin == jsMul(Imported.PEDESTAL_BASE_RATIO, p.totalHeightMm)
              min == IF /\ (p.legCount = 1 \/ p.legProfileType = "pedestal")
                        /\ HasNum(p.totalHeightMm)
                        /\ jsGt(pedestalMin, m3)
                     THEN pedestalMin ELSE m3
          IN  [min |-> min, max |-> ABS.legProfile.max]

radialSpreadConstraint(p) ==
  LET spreadMin == jsMul(Imported.RADIAL_SPREAD_RATIO, p.totalHeightMm)
      min == IF HasNum(p.totalHeightMm) /\ jsGt(spreadMin, ABS.radialSpread.min)
             THEN spreadMin ELSE ABS.radialSpread.min
  IN  [min |-> min, max |-> ABS.radialSpread.max]

\* The object literal is evaluated field by field; the first call that throws
\* ends getFieldConstraints with that TypeError.
getFieldConstraints(partial) ==
  IF \/ Threw(topThicknessConstraint(partial))
     \/ Threw(topFaceConstraint(partial))
     \/ Threw(legProfileConstraint(partial))
  THEN TypeError
  ELSE
    [ topThicknessMm |-> topThicknessConstraint(partial),
      topFaceThicknessMm |-> topFaceConstraint(partial),
      topLengthMm |-> topLengthConstraint(partial),
      topWidthMm |-> topWidthConstraint(partial),
      totalHeightMm |-> totalHeightConstraint,
      legProfileSizeMm |-> legProfileConstraint(partial),
      legRadialSpreadMm |-> radialSpreadConstraint(partial) ]

(***************************************************************************)
(* engine.ts                                                               *)
(***************************************************************************)
WARNING_RULE_IDS == {"LEG-05"}

\* Mutant: the composite checker runs last instead of first.
allMessagesCompositeLast(config) ==
  checkMaterialThickness(config)
  \o checkSpan(config)
  \o checkStability(config)
  \o checkLegRules(config)
  \o checkHeight(config)
  \o checkEdge(config)
  \o checkCompositeTop(config)

allMessages(config) ==
  checkCompositeTop(config)
  \o checkMaterialThickness(config)
  \o checkSpan(config)
  \o checkStability(config)
  \o checkLegRules(config)
  \o checkHeight(config)
  \o checkEdge(config)

\* Mutant: the violations filter keeps every finding.
IsViolationAll(m) == TRUE

IsViolation(m) == m.ruleId \notin WARNING_RULE_IDS
IsWarning(m) == m.ruleId \in WARNING_RULE_IDS

\* Mutant: isValid is computed from all findings, warnings included.
validateWarningsBlock(config) ==
  LET violations == SelectSeq(allMessages(config), IsViolation)
      warnings == SelectSeq(allMessages(config), IsWarning)
      isValid == Len(allMessages(config)) = 0
  IN  [ isValid |-> isValid,
        warnings |-> warnings,
        violations |-> violations,
        suggestedConfig |-> IF ~isValid
                            THEN << generateSuggestion(config, violations) >>
                            ELSE << >> ]

\* Mutant: a suggestion is also generated when only warnings were found.
validateSuggestsOnWarnings(config) ==
  LET violations == SelectSeq(allMessages(config), IsViolation)
      warnings == SelectSeq(allMessages(config), IsWarning)
      isValid == Len(violations) = 0
  IN  [ isValid |-> isValid,
        warnings |-> warnings,
        violations |-> violations,
        suggestedConfig |-> IF Len(allMessages(config)) # 0
                            THEN << generateSuggestion(config, violations) >>
                            ELSE << >> ]

\* ValidationResult; the optional suggestedConfig is a sequence of length 0 or 1.
validate(config) ==
  LET violations == SelectSeq(allMessages(config), IsViolation)
      warnings == SelectSeq(allMessages(config), IsWarning)
      isValid == Len(violations) = 0
  IN  [ isValid |-> isValid,
        warnings |-> warnings,
        violations |-> violations,
        suggestedConfig |-> IF ~isValid
                            THEN << generateSuggestion(config, violations) >>
                            ELSE << >> ]

\* The caller's object when validate returns.  The checkers only read it; the
\* one writer on the path is generateSuggestion, called when violations exist.
configAfterValidate(config) ==
  LET violations == SelectSeq(allMessages(config), IsViolation)
  IN  IF Len(violations) # 0
      THEN suggestionObjects(config, violations).original
      ELSE config

(***************************************************************************)
(* The caller: builds a configuration, validates it, and may validate the  *)
(* suggestion it got back or ask for the suggestion with the violations    *)
(* in another order.                                                       *)
(***************************************************************************)
VARIABLES
  config,     \* the TableConfig handed to validate
  edits,      \* number of field edits made to the test configuration
  phase,      \* "editing" | "validated" | "revalidated" | "permuted" | "constrained"
  result,     \* validate(config), once phase # "editing"
  recheck,    \* validate(suggestedConfig), once phase = "revalidated"
  permuted,   \* generateSuggestion on a reordered violations list
  given,      \* the configuration as it was when validate was called
  constraints \* getFieldConstraints(config), once phase = "constrained"

vars == << config, edits, phase, result, recheck, permuted, given, constraints >>

NoResult == [isValid |-> TRUE, warnings |-> << >>, violations |-> << >>,
             suggestedConfig |-> << >>]

Init ==
  /\ config \in TestConfigs
  /\ edits = 0
  /\ phase = "editing"
  /\ result = NoResult
  /\ recheck = NoResult
  /\ permuted = << >>
  /\ given = config
  /\ constraints = << >>

\* topThicknessMm or legHeightMm changed; the caller either re-enters the total
\* height as their sum (as the test file does) or leaves it as it was.
WithTotal(c, sync) ==
  IF sync THEN [c EXCEPT !.totalHeightMm = c.legHeightMm + c.topThicknessMm] ELSE c

TopEdits(c) ==
  {[c EXCEPT !.topMaterial = v] : v \in TopMaterial}
  \cup {WithTotal([c EXCEPT !.topThicknessMm = v], sync) :
          v \in ThicknessValues, sync \in BOOLEAN}
  \cup {[c EXCEPT !.topShapeType = v] : v \in TopShapeType}
  \cup {[c EXCEPT !.topLengthMm = v] : v \in LengthValues}
  \cup {[c EXCEPT !.topWidthMm = v] : v \in WidthValues}
  \cup {[c EXCEPT !.topEdgeFinish = v] : v \in TopEdgeFinish}
  \cup {[c EXCEPT !.topConstruction = v] : v \in TopConstruction}
  \cup {[c EXCEPT !.topFaceThicknessMm = v] : v \in FaceValues}

LegEdits(c) ==
  {[c EXCEPT !.legCount = v] : v \in LegCount}
  \cup {[c EXCEPT !.legMaterial = v] : v \in LegMaterial}
  \cup {[c EXCEPT !.legProfileType = v] : v \in LegProfileType}
  \cup {[c EXCEPT !.legProfileSizeMm = v] : v \in ProfileSizeValues}
  \cup {[c EXCEPT !.legProfileWidthMm = v] : v \in ProfileWidthValues}
  \cup {WithTotal([c EXCEPT !.legHeightMm = v], sync) :
          v \in LegHeightValues, sync \in BOOLEAN}
  \cup {[c EXCEPT !.hasFootBase = v] : v \in BOOLEAN}
  \cup {[c EXCEPT !.legRadialCount = v] : v \in LegRadialCount}
  \cup {[c EXCEPT !.legRadialSpreadMm = v] : v \in RadialSpreadValues}

HeightEdits(c) ==
  {[c EXCEPT !.totalHeightMm = v] : v \in TotalHeightValues}

Edit(choices) ==
  /\ phase = "editing"
  /\ edits < MaxEdits
  /\ \E c \in choices :
       /\ c # config
       /\ config' = c
  /\ edits' = edits + 1
  /\ given' = config'
  /\ UNCHANGED << phase, result, recheck, permuted, constraints >>

EditTop == Edit(TopEdits(config))
EditLegs == Edit(LegEdits(config))
EditHeight == Edit(HeightEdits(config))

\* validate(config)
Validate ==
  /\ phase = "editing"
  /\ result' = validate(config)
  /\ config' = configAfterValidate(config)
  /\ phase' = "validated"
  /\ UNCHANGED << edits, recheck, permuted, given, constraints >>

\* validate(result.suggestedConfig)
Revalidate ==
  /\ phase = "validated"
  /\ result.suggestedConfig # << >>
  /\ recheck' = validate(result.suggestedConfig[1])
  /\ phase' = "revalidated"
  /\ UNCHANGED << config, edits, result, permuted, given, constraints >>

\* The list with entries i and j exchanged.
Swap(seq, i, j) ==
  [k \in 1..Len(seq) |-> IF k = i THEN seq[j] ELSE IF k = j THEN seq[i] ELSE seq[k]]

\* generateSuggestion(config, violations) with two violations exchanged.
SuggestPermuted ==
  /\ phase = "validated"
  /\ \E i, j \in 1..Len(result.violations) :
       /\ i < j
       /\ permuted' = << generateSuggestion(config, Swap(result.violations, i, j)) >>
  /\ phase' = "permuted"
  /\ UNCHANGED << config, edits, result, recheck, given, constraints >>

\* getFieldConstraints(config) for the configuration that was validated.
GetFieldConstraints ==
  /\ phase = "validated"
  /\ constraints' = << getFieldConstraints(config) >>
  /\ phase' = "constrained"
  /\ UNCHANGED << config, edits, result, recheck, permuted, given >>

Next ==
  \/ EditTop
  \/ EditLegs
  \/ EditHeight
  \/ Validate
  \/ Revalidate
  \/ SuggestPermuted
  \/ GetFieldConstraints

Spec == Init /\ [][Next]_vars

(***************************************************************************)
(* The caller of getFieldConstraints alone: a form filled in field by      *)
(* field.  It starts from a configuration with no field entered, enters    *)
(* fields with values inside their absolute bounds, and asks for the       *)
(* ranges of the partial configuration it has so far.                      *)
(***************************************************************************)
\* Partial<TableConfig> with no field entered.
EmptyPartial ==
  [ topMaterial |-> "undefined", topThicknessMm |-> Undefined,
    topShapeType |-> "undefined", topLengthMm |-> Undefined, topWidthMm |-> Undefined,
    topEdgeFinish |-> "undefined", topConstruction |-> "undefined",
    topFaceThicknessMm |-> Undefined,
    legCount |-> Undefined, legMaterial |-> "undefined", legProfileType |-> "undefined",
    legProfileSizeMm |-> Undefined, legProfileWidthMm |-> Undefined,
    legHeightMm |-> Undefined, hasFootBase |-> FALSE,
    legRadialCount |-> Undefined, legRadialSpreadMm |-> Undefined,
    totalHeightMm |-> Undefined ]

\* Values entered in the form: the two ends of each absolute range and the
\* thresholds between them.
PartialTopFields ==
  [ topMaterial |-> TopMaterial,
    topConstruction |-> {"solid", "composite"},
    topEdgeFinish |-> TopEdgeFinish,
    topThicknessMm |-> {6, 12, 20, 30, 60},
    topFaceThicknessMm |-> {3, 6, 12, 25, 26, 30},
    topLengthMm |-> {200, 1300, 1500, 4000},
    topWidthMm |-> {100, 2000} ]

PartialLegFields ==
  [ legCount |-> {1, 2, 4, 6},
    legMaterial |-> LegMaterial,
    legProfileType |-> LegProfileType,
    legProfileSizeMm |-> {10, 500},
    legHeightMm |-> {300, 750, 1090},
    legRadialSpreadMm |-> {50, 1500} ]

PartialHeightFields == [ totalHeightMm |-> {350, 750, 1100} ]

InitPartial ==
  /\ config = EmptyPartial
  /\ edits = 0
  /\ phase = "entering"
  /\ result = NoResult
  /\ recheck = NoResult
  /\ permuted = << >>
  /\ given = EmptyPartial
  /\ constraints = << >>

\* One field that is still absent gets a value.
Enter(fields) ==
  /\ phase = "entering"
  /\ edits < MaxFields
  /\ \E f \in DOMAIN fields :
       /\ config[f] = EmptyPartial[f]
       /\ \E v \in fields[f] : config' = [config EXCEPT ![f] = v]
  /\ edits' = edits + 1
  /\ given' = config'
  /\ UNCHANGED << phase, result, recheck, permuted, constraints >>

EnterTopField == Enter(PartialTopFields)
EnterLegField == Enter(PartialLegFields)
EnterHeightField == Enter(PartialHeightFields)

\* getFieldConstraints(partial)
GetPartialConstraints ==
  /\ phase = "entering"
  /\ constraints' = << getFieldConstraints(config) >>
  /\ phase' = "bounded"
  /\ UNCHANGED << config, edits, result, recheck, permuted, given >>

NextPartial ==
  \/ EnterTopField
  \/ EnterLegField
  \/ EnterHeightField
  \/ GetPartialConstraints

SpecPartial == InitPartial /\ [][NextPartial]_vars

(***************************************************************************)
(* Properties.                                                             *)
(***************************************************************************)
\* Every call of validate made so far: its argument and what it returned.
Runs ==
  (IF phase # "editing" THEN {[input |-> config, output |-> result]} ELSE {})
  \cup (IF phase = "revalidated"
        THEN {[input |-> result.suggestedConfig[1], output |-> recheck]} ELSE {})

RuleIds(msgs) == {msgs[i].ruleId : i \in 1..Len(msgs)}

\* C1: validate returns isValid = true exactly when the violations list is
\* empty; warnings never change isValid.
C1_ValidIffNoViolations ==
  \A r \in Runs : r.output.isValid <=> (Len(r.output.violations) = 0)

\* A configuration with a warning and no violation was validated and found valid.
C1_Witness ==
  /\ phase = "validated"
  /\ Len(result.warnings) > 0
  /\ Len(result.violations) = 0
  /\ result.isValid

\* C2: the result carries a suggested configuration exactly when isValid is
\* false; a valid configuration, also one with warnings, gets none.
C2_SuggestionIffInvalid ==
  \A r \in Runs : (r.output.suggestedConfig # << >>) <=> ~r.output.isValid

\* Both cases in one run: the configuration was invalid and came with a
\* suggestion; the suggestion, validated in turn, had a warning only and came
\* with none.
C2_Witness ==
  /\ phase = "revalidated"
  /\ ~result.isValid
  /\ result.suggestedConfig # << >>
  /\ recheck.isValid
  /\ Len(recheck.warnings) > 0
  /\ recheck.suggestedConfig = << >>

\* C3: every suggested configuration has
\* totalHeightMm = legHeightMm + topThicknessMm exactly.
C3_HeightRecomputed ==
  \A r \in Runs :
    r.output.suggestedConfig # << >> =>
      LET s == r.output.suggestedConfig[1]
      IN  s.totalHeightMm = s.legHeightMm + s.topThicknessMm

\* A repair changed the thickness of a top whose stated total height was
\* consistent before, so the sum had to be recomputed.
C3_Witness ==
  /\ phase = "validated"
  /\ result.suggestedConfig # << >>
  /\ config.totalHeightMm = config.legHeightMm + config.topThicknessMm
  /\ result.suggestedConfig[1].topThicknessMm # config.topThicknessMm
  /\ result.suggestedConfig[1].totalHeightMm # config.totalHeightMm

\* C4: the suggested configuration is itself valid: validate reports no
\* violation on it.
C4_SuggestionIsValid ==
  phase = "revalidated" => Len(recheck.violations) = 0

\* C5: no rule identifier of the original violations list appears among the
\* violations validate reports on the suggested configuration.
C5_EveryViolationResolved ==
  phase = "revalidated" =>
    RuleIds(result.violations) \cap RuleIds(recheck.violations) = {}

\* C6: a composite top never produces MAT-01 or MAT-02.
C6_CompositeNoMaterialFinding ==
  \A r \in Runs :
    r.input.topConstruction = "composite" =>
      RuleIds(r.output.violations \o r.output.warnings) \cap {"MAT-01", "MAT-02"} = {}

\* A composite top thinner than its material's absolute minimum, or below the
\* span-upgraded minimum at its length, was validated.
C6_Witness ==
  /\ phase = "validated"
  /\ config.topConstruction = "composite"
  /\ config.topThicknessMm < MATERIAL_MIN_THICKNESS(config.topMaterial)
  /\ config.topMaterial \in {"marble", "granite"}
  /\ config.topLengthMm > 1400

\* C7: a radial-halfcylinder base never produces LEG-01..LEG-04, STAB-02,
\* STAB-03 or SPAN-02.
C7_RadialExclusive ==
  \A r \in Runs :
    r.input.legProfileType = "radial_halfcylinder" =>
      RuleIds(r.output.violations \o r.output.warnings)
        \cap {"LEG-01", "LEG-02", "LEG-03", "LEG-04", "STAB-02", "STAB-03", "SPAN-02"} = {}

\* A radial base was validated that a pedestal rule set would reject: a single
\* leg under a rectangular top wider than any pedestal limit, with a profile
\* below 0.4 x height.
C7_Witness ==
  /\ phase = "validated"
  /\ config.legProfileType = "radial_halfcylinder"
  /\ config.legCount = 1
  /\ config.topShapeType = "rectangle"
  /\ effectiveSpanExceeds(config, pedestalMaxDiag(config.topThicknessMm))
  /\ config.legProfileSizeMm < Ceil04(config.totalHeightMm)

\* The checker a rule identifier belongs to.
CheckerOf(ruleId) ==
  CASE ruleId \in {"MAT-01", "MAT-02"} -> "material"
    [] ruleId \in {"SPAN-01", "SPAN-02"} -> "span"
    [] ruleId \in {"STAB-01", "STAB-02", "STAB-03"} -> "stability"
    [] ruleId \in {"LEG-01", "LEG-02", "LEG-03", "LEG-04", "LEG-05",
                   "RADIAL-01", "RADIAL-02", "RADIAL-03"} -> "leg"
    [] ruleId \in {"HGT-01", "HGT-03"} -> "height"
    [] ruleId \in {"EDGE-01", "EDGE-02"} -> "edge"
    [] ruleId \in {"COMP-01", "COMP-02", "COMP-03"} -> "composite"

Position(order, checker) == CHOOSE i \in 1..Len(order) : order[i] = checker

\* Findings of an earlier checker of `order` precede those of a later one.
InCheckerOrder(msgs, order) ==
  \A i, j \in 1..Len(msgs) :
    i < j => Position(order, CheckerOf(msgs[i].ruleId))
               <= Position(order, CheckerOf(msgs[j].ruleId))

\* C8 as stated: the violations are ordered material, span, stability, leg,
\* height, edge, composite (composite findings last).
C8_ClaimedOrder ==
  \A r \in Runs :
    InCheckerOrder(r.output.violations,
      << "material", "span", "stability", "leg", "height", "edge", "composite" >>)

\* C8 amended: the violations are ordered composite, material, span,
\* stability, leg, height, edge (composite findings first).
C8_EngineOrder ==
  \A r \in Runs :
    InCheckerOrder(r.output.violations,
      << "composite", "material", "span", "stability", "leg", "height", "edge" >>)

\* A composite finding was reported together with findings of two other checkers.
C8_Witness ==
  /\ phase = "validated"
  /\ RuleIds(result.violations) \cap {"COMP-01", "COMP-02"} # {}
  /\ RuleIds(result.violations) \cap {"SPAN-01", "SPAN-02"} # {}
  /\ RuleIds(result.violations) \cap {"EDGE-01", "EDGE-02"} # {}

\* C9: applying the fixes for the violations in another order of the list
\* yields the same suggested configuration.
C9_FixOrderIrrelevant ==
  phase = "permuted" => permuted = result.suggestedConfig

\* C10: every finding of the checkers lands in exactly one list by its rule
\* identifier: LEG-05 only in warnings, every other identifier only in
\* violations, and none is dropped.
C10_Partition ==
  \A r \in Runs :
    LET all == allMessages(r.input)
        v == r.output.violations
        w == r.output.warnings
    IN  /\ RuleIds(w) \subseteq {"LEG-05"}
        /\ "LEG-05" \notin RuleIds(v)
        /\ Len(v) + Len(w) = Len(all)
        /\ \A i \in 1..Len(all) :
             IF all[i].ruleId = "LEG-05"
             THEN \E k \in 1..Len(w) : w[k] = all[i]
             ELSE \E k \in 1..Len(v) : v[k] = all[i]

\* A configuration with the LEG-05 warning and at least two violations was validated.
C10_Witness ==
  /\ phase = "validated"
  /\ "LEG-05" \in RuleIds(result.warnings)
  /\ Len(result.violations) >= 2

\* C11: validate never modifies the configuration it is given: when it has
\* returned, valid or invalid, every field of the caller's object has the
\* value it had at the call.
C11_InputUnchanged ==
  phase # "editing" => config = given

\* validate returned a suggestion that differs from the configuration it was
\* given in at least two fields, so the suggester did write.
C11_Witness ==
  /\ phase = "validated"
  /\ result.suggestedConfig # << >>
  /\ Cardinality({f \in DOMAIN given : result.suggestedConfig[1][f] # given[f]}) >= 2

\* The one field each rule identifier was seen to report on.
ReportedField(ruleId) ==
  CASE ruleId \in {"MAT-01", "MAT-02", "COMP-03"} -> "topThicknessMm"
    [] ruleId \in {"SPAN-01", "SPAN-02"} -> "topLengthMm"
    [] ruleId = "STAB-01" -> "topWidthMm"
    [] ruleId = "STAB-03" -> "hasFootBase"
    [] ruleId \in {"STAB-02", "LEG-01", "LEG-02", "LEG-03", "RADIAL-03"} -> "legProfileSizeMm"
    [] ruleId \in {"LEG-04", "LEG-05"} -> "legCount"
    [] ruleId = "RADIAL-01" -> "legRadialSpreadMm"
    [] ruleId = "RADIAL-02" -> "legRadialCount"
    [] ruleId \in {"HGT-01", "HGT-03"} -> "totalHeightMm"
    [] ruleId \in {"EDGE-01", "EDGE-02"} -> "topEdgeFinish"
    [] ruleId \in {"COMP-01", "COMP-02"} -> "topFaceThicknessMm"

\* Every finding, violation or warning, of a call of validate.
Findings(r) ==
  {r.output.violations[i] : i \in 1..Len(r.output.violations)}
  \cup {r.output.warnings[i] : i \in 1..Len(r.output.warnings)}

\* C12: a rule identifier always reports on the same single field: two
\* findings with the same rule identifier, from whichever configurations,
\* have the same field.  Every finding of every configuration names the one
\* field of the table above, so any two with the same identifier agree.
C12_OneFieldPerRule ==
  \A r1, r2 \in Runs :
    \A m1 \in Findings(r1), m2 \in Findings(r2) :
      m1.ruleId = m2.ruleId =>
        /\ m1.field = m2.field
        /\ m1.field = ReportedField(m1.ruleId)

\* An edge rule, which compares the face thickness on a composite top and the
\* total thickness on a solid one, was reported for a composite configuration
\* and again for the different configuration suggested for it.
C12_Witness ==
  /\ phase = "revalidated"
  /\ config.topConstruction = "composite"
  /\ result.suggestedConfig[1] # config
  /\ RuleIds(result.violations) \cap RuleIds(recheck.violations)
       \cap {"EDGE-01", "EDGE-02"} # {}

\* range.min <= x && x <= range.max
Within(x, range) == jsGe(x, range.min) /\ jsGe(range.max, x)

\* C13: getFieldConstraints returns ranges for the validated configuration,
\* and when topLengthMm lies within the [min, max] it gives for topLengthMm,
\* validate reports no SPAN-01.
C13_LengthRangeExcludesSpan01 ==
  phase = "constrained" =>
    /\ ~Threw(constraints[1])
    /\ (Within(config.topLengthMm, constraints[1].topLengthMm)
          => "SPAN-01" \notin RuleIds(result.violations))

\* C14: getFieldConstraints returns ranges for the validated configuration,
\* and when legProfileSizeMm is at least the minimum it gives for
\* legProfileSizeMm, validate reports none of LEG-01, LEG-02, LEG-03, STAB-02
\* and RADIAL-03.
C14_ProfileMinExcludesLegFindings ==
  phase = "constrained" =>
    /\ ~Threw(constraints[1])
    /\ (jsGe(config.legProfileSizeMm, constraints[1].legProfileSizeMm.min)
          => RuleIds(result.violations)
               \cap {"LEG-01", "LEG-02", "LEG-03", "STAB-02", "RADIAL-03"} = {})

\* C15: for a composite top with a face thickness, getFieldConstraints returns
\* ranges for the validated configuration, and when topFaceThicknessMm lies
\* within the [min, max] it gives for topFaceThicknessMm, validate reports
\* none of COMP-01, COMP-02, EDGE-01 and EDGE-02.
C15_FaceRangeExcludesCompositeFindings ==
  (/\ phase = "constrained"
   /\ config.topConstruction = "composite"
   /\ config.topFaceThicknessMm # Undefined) =>
    /\ ~Threw(constraints[1])
    /\ (Within(config.topFaceThicknessMm, constraints[1].topFaceThicknessMm)
          => RuleIds(result.violations)
               \cap {"COMP-01", "COMP-02", "EDGE-01", "EDGE-02"} = {})

\* C16: when MAT-01 or MAT-02 is reported, the suggested topThicknessMm is at
\* least the material's absolute minimum and, when the top length exceeds the
\* material's span threshold, at least the span-upgraded minimum.
C16_MaterialFixReachesMinimum ==
  \A r \in Runs :
    RuleIds(r.output.violations) \cap {"MAT-01", "MAT-02"} # {} =>
      LET s == r.output.suggestedConfig[1]
      IN  /\ s.topThicknessMm >= MATERIAL_MIN_THICKNESS(r.input.topMaterial)
          /\ \A k \in 1..Len(MATERIAL_SPAN_UPGRADE) :
               (/\ r.input.topMaterial \in MATERIAL_SPAN_UPGRADE[k].materials
                /\ r.input.topLengthMm > MATERIAL_SPAN_UPGRADE[k].spanThresholdMm)
                 => s.topThicknessMm >= MATERIAL_SPAN_UPGRADE[k].minThicknessMm

\* C17: when EDGE-01 is reported, the suggested configuration has at least
\* 20 mm in the thickness the edge rule compares: the face thickness of a
\* composite top that has one, the total thickness otherwise.
C17_MiteredFixReaches20 ==
  \A r \in Runs :
    "EDGE-01" \in RuleIds(r.output.violations) =>
      LET s == r.output.suggestedConfig[1]
      IN  (IF s.topConstruction = "composite" /\ s.topFaceThicknessMm # Undefined
           THEN s.topFaceThicknessMm ELSE s.topThicknessMm) >= 20

\* C18: when EDGE-02 is reported for a beveled top thinner than 12 mm, the
\* suggested configuration has the straight edge finish.
C18_ThinBeveledBecomesStraight ==
  \A r \in Runs :
    (/\ "EDGE-02" \in RuleIds(r.output.violations)
     /\ r.input.topEdgeFinish = "beveled"
     /\ r.input.topThicknessMm < 12)
      => r.output.suggestedConfig[1].topEdgeFinish = "straight"

\* C19: when RADIAL-01 is reported, the suggested legRadialSpreadMm is at
\* least ceil(0.4 x totalHeightMm) of the configuration that was validated;
\* for an integer spread that is spread >= 0.4 x totalHeightMm.
C19_SpreadFixReachesRatio ==
  \A r \in Runs :
    "RADIAL-01" \in RuleIds(r.output.violations) =>
      5 * r.output.suggestedConfig[1].legRadialSpreadMm >= 2 * r.input.totalHeightMm

\* RADIAL-01 was reported for a total height that is not a multiple of 5 (so
\* the rounding matters), and the suggestion's recalculated total height
\* differs from the one the spread was derived from.
C19_Witness ==
  /\ phase = "validated"
  /\ "RADIAL-01" \in RuleIds(result.violations)
  /\ config.totalHeightMm % 5 # 0
  /\ result.suggestedConfig[1].totalHeightMm # config.totalHeightMm
  /\ result.suggestedConfig[1].legRadialSpreadMm > config.legRadialSpreadMm

\* C20: COMP-03 is unreachable: validate reports it for no configuration.
C20_Comp03Unreachable ==
  \A r \in Runs :
    \A m \in Findings(r) : m.ruleId # "COMP-03"

\* A composite top whose total thickness is below 2 x face + MIN_CORE_MM, the
\* condition of COMP-03, was validated and drew COMP-02 alone of the two.
C20_Witness ==
  /\ phase = "validated"
  /\ config.topConstruction = "composite"
  /\ config.topFaceThicknessMm # Undefined
  /\ config.topThicknessMm < 2 * config.topFaceThicknessMm + MIN_CORE_MM
  /\ "COMP-02" \in RuleIds(result.violations)

\* The maximum span of the thickness tier that applies to a top: the tier with
\* the highest minimum thickness the top reaches, among those of its material;
\* 0 when there is none.
TierMaxSpan(material, thickness) ==
  IF thickness >= 30 THEN 2400
  ELSE IF thickness >= 20 THEN (IF material = "sintered_stone" THEN 1800 ELSE 1400)
  ELSE IF thickness >= 12 /\ material = "sintered_stone" THEN 900
  ELSE 0

\* A 2-, 4- or 6-leg top that is not a pedestal and has an applicable tier.
MultiLegWithTier(c) ==
  /\ c.legCount \in {2, 4, 6}
  /\ c.legProfileType # "pedestal"
  /\ TierMaxSpan(c.topMaterial, c.topThicknessMm) # 0

\* The effective span (diameter of a round top, diagonal otherwise) exceeds
\* max, or 1.4 x max for a composite top.
EffectiveSpanOver(c, max) ==
  IF c.topShapeType = "round"
  THEN IF c.topConstruction = "composite"
       THEN 10 * c.topLengthMm > 14 * max ELSE c.topLengthMm > max
  ELSE IF c.topConstruction = "composite"
       THEN 100 * (c.topLengthMm * c.topLengthMm + c.topWidthMm * c.topWidthMm)
              > 196 * max * max
       ELSE c.topLengthMm * c.topLengthMm + c.topWidthMm * c.topWidthMm > max * max

\* topLengthMm exceeds max, or max * 1.4 as a double for a composite top:
\* 1400 * 1.4 is 1959.9999999999998, so 1960 exceeds it; 900, 1800 and 2400
\* times 1.4 are exact.
LengthOver(c, max) ==
  IF c.topConstruction = "composite"
  THEN 10 * c.topLengthMm > 14 * max \/ (max = 1400 /\ c.topLengthMm = 1960)
  ELSE c.topLengthMm > max

\* C21 as stated: for a 2-, 4- or 6-leg non-pedestal top with an applicable
\* tier, SPAN-01 is reported exactly when the effective span exceeds the
\* tier's maximum span (times 1.4 for composite tops).
C21_Span01ByEffectiveSpan ==
  \A r \in Runs :
    MultiLegWithTier(r.input) =>
      ("SPAN-01" \in RuleIds(r.output.violations)
         <=> EffectiveSpanOver(r.input, TierMaxSpan(r.input.topMaterial,
                                                    r.input.topThicknessMm)))

\* C21 amended: for such a top SPAN-01 is reported exactly when topLengthMm,
\* whatever the shape and the width, exceeds the tier's maximum span, times
\* 1.4 in double arithmetic for composite tops.
C21_Span01ByLength ==
  \A r \in Runs :
    MultiLegWithTier(r.input) =>
      ("SPAN-01" \in RuleIds(r.output.violations)
         <=> LengthOver(r.input, TierMaxSpan(r.input.topMaterial,
                                             r.input.topThicknessMm)))

\* A top that is not round, whose diagonal exceeds the tier's maximum span
\* while its length does not, was validated and drew no SPAN-01.
C21_Witness ==
  /\ phase = "validated"
  /\ MultiLegWithTier(config)
  /\ config.topShapeType # "round"
  /\ EffectiveSpanOver(config, TierMaxSpan(config.topMaterial, config.topThicknessMm))
  /\ ~LengthOver(config, TierMaxSpan(config.topMaterial, config.topThicknessMm))
  /\ "SPAN-01" \notin RuleIds(result.violations)

\* Non-radial, with a single leg or the pedestal profile.
IsPedestal(c) ==
  /\ c.legCount = 1 \/ c.legProfileType = "pedestal"
  /\ c.legProfileType # "radial_halfcylinder"

\* C22: a pedestal configuration never produces SPAN-01, no configuration
\* produces both SPAN-01 and SPAN-02, and for a pedestal configuration SPAN-02
\* is reported exactly when the effective span exceeds 1200 (thickness >= 30),
\* 1000 (20 <= thickness < 30) or 800 (thickness < 20).
C22_PedestalSpanStandalone ==
  \A r \in Runs :
    LET c == r.input
        ids == RuleIds(r.output.violations)
        limit == IF c.topThicknessMm >= 30 THEN 1200
                 ELSE IF c.topThicknessMm >= 20 THEN 1000 ELSE 800
        span2 == IF c.topShapeType = "round" THEN c.topLengthMm * c.topLengthMm
                 ELSE c.topLengthMm * c.topLengthMm + c.topWidthMm * c.topWidthMm
    IN  /\ ~({"SPAN-01", "SPAN-02"} \subseteq ids)
        /\ IsPedestal(c) =>
             /\ "SPAN-01" \notin ids
             /\ "SPAN-02" \in ids <=> span2 > limit * limit

\* A pedestal-profile top on four legs, thinner than 20 mm and longer than its
\* 4-leg tier allows, was validated and drew SPAN-02 from the fallback limit.
C22_Witness ==
  /\ phase = "validated"
  /\ config.legProfileType = "pedestal"
  /\ config.legCount = 4
  /\ config.topThicknessMm < 20
  /\ MultiLegWithTier([config EXCEPT !.legProfileType = "square"])
  /\ config.topLengthMm > TierMaxSpan(config.topMaterial, config.topThicknessMm)
  /\ "SPAN-02" \in RuleIds(result.violations)

\* C23: when HGT-01 is the only violation, the suggested totalHeightMm is 350
\* if the total height was below the minimum and 1100 if it was above the
\* maximum.
C23_HeightClampedToBounds ==
  \A r \in Runs :
    RuleIds(r.output.violations) = {"HGT-01"} =>
      LET s == r.output.suggestedConfig[1]
      IN  /\ r.input.totalHeightMm < 350 => s.totalHeightMm = 350
          /\ r.input.totalHeightMm > 1100 => s.totalHeightMm = 1100

\* C25: for every invalid configuration the suggested topThicknessMm is at
\* least the original topThicknessMm.
C25_NeverThinner ==
  \A r \in Runs :
    ~r.output.isValid =>
      r.output.suggestedConfig[1].topThicknessMm >= r.input.topThicknessMm

\* C26: a top thinner than its material's absolute minimum thickness is never
\* reported valid, solid or composite, with or without a face thickness.
C26_ThinTopNeverValid ==
  \A r \in Runs :
    r.input.topThicknessMm < MATERIAL_MIN_THICKNESS(r.input.topMaterial)
      => ~r.output.isValid

\* min and max of a returned range are ordered and inside the absolute bounds.
WellFormed(range, abs) ==
  /\ jsGe(range.min, abs.min)
  /\ jsGe(range.max, range.min)
  /\ jsGe(abs.max, range.max)

\* C24: for a partial configuration whose entered numeric fields lie within
\* their absolute bounds, getFieldConstraints returns ranges and every one of
\* them satisfies absolute min <= min <= max <= absolute max.
C24_RangesWellFormed ==
  phase = "bounded" =>
    LET g == constraints[1]
    IN  /\ ~Threw(g)
        /\ WellFormed(g.topThicknessMm, ABS.topThickness)
        /\ WellFormed(g.topFaceThicknessMm, ABS.topFace)
        /\ WellFormed(g.topLengthMm, ABS.topLength)
        /\ WellFormed(g.topWidthMm, ABS.topWidth)
        /\ WellFormed(g.legProfileSizeMm, ABS.legProfile)
        /\ WellFormed(g.legRadialSpreadMm, ABS.radialSpread)

\* The rules whose repair may write a field; the empty set for a field no
\* repair writes.  topThicknessMm and totalHeightMm are not restricted.
RepairedBy(field) ==
  CASE field = "legHeightMm" -> {"HGT-01"}
    [] field \in {"legCount", "legProfileType"} -> {"LEG-04"}
    [] field = "hasFootBase" -> {"STAB-03"}
    [] field = "topEdgeFinish" -> {"EDGE-02"}
    [] field = "topFaceThicknessMm" -> {"COMP-01"}
    [] field = "legRadialSpreadMm" -> {"RADIAL-01"}
    [] field = "legRadialCount" -> {"RADIAL-02"}
    [] field = "topLengthMm" -> {"SPAN-01", "SPAN-02"}
    [] field = "topWidthMm" -> {"SPAN-02", "STAB-01"}
    [] field = "legProfileSizeMm" ->
         {"STAB-02", "LEG-01", "LEG-02", "LEG-03", "RADIAL-03"}
    [] field \in {"topMaterial", "topShapeType", "topConstruction", "legMaterial",
                  "legProfileWidthMm"} -> {}

\* C27: the suggestion differs from the configuration in a field only when a
\* rule whose repair writes that field was reported; topMaterial,
\* topShapeType, topConstruction, legMaterial and legProfileWidthMm never
\* differ.
C27_OnlyRepairedFieldsChange ==
  \A r \in Runs :
    r.output.suggestedConfig # << >> =>
      \A f \in DOMAIN r.input \ {"topThicknessMm", "totalHeightMm"} :
        r.output.suggestedConfig[1][f] # r.input[f]
          => RepairedBy(f) \cap RuleIds(r.output.violations) # {}

\* A suggestion changed the top thickness, the profile size and the foot
\* base at once and left the leg height as it was.
C27_Witness ==
  /\ phase = "validated"
  /\ result.suggestedConfig # << >>
  /\ result.suggestedConfig[1].topThicknessMm # config.topThicknessMm
  /\ result.suggestedConfig[1].legProfileSizeMm # config.legProfileSizeMm
  /\ result.suggestedConfig[1].hasFootBase # config.hasFootBase
  /\ result.suggestedConfig[1].legHeightMm = config.legHeightMm

\* C28: for a radial-halfcylinder base with a spread radius, STAB-01 is
\* reported only together with RADIAL-01.
C28_RadialSpreadSubsumesStability ==
  \A r \in Runs :
    (/\ r.input.legProfileType = "radial_halfcylinder"
     /\ r.input.legRadialSpreadMm # Undefined
     /\ "STAB-01" \in RuleIds(r.output.violations))
      => "RADIAL-01" \in RuleIds(r.output.violations)

\* A radial base with a spread radius drew STAB-01 although its top is wide
\* enough for its height: the footprint came from the spread.
C28_Witness ==
  /\ phase = "validated"
  /\ config.legProfileType = "radial_halfcylinder"
  /\ config.legRadialSpreadMm # Undefined
  /\ 20 * config.topWidthMm >= 9 * config.totalHeightMm
  /\ "STAB-01" \in RuleIds(result.violations)

====
